---- MODULE Spec2Model ----
(***************************************************************************)
(* Model of the command-line option parser of src/vm/opt_parser.h:         *)
(* option descriptors (BoolOpt, IntOpt, UintOpt, StrOpt), the registry     *)
(* lookup, and OptParser::parse(argc, argv).                               *)
(*                                                                         *)
(* Strings are sequences of one-character strings, so that find, substr    *)
(* and the numeric conversions are computed character by character.        *)
(* 64-bit integers are kept as decimal digit sequences (sign + magnitude   *)
(* without leading zeros), compared by length and then digit by digit, so  *)
(* the bounds 2^63 and 2^64 are exact.                                     *)
(***************************************************************************)
EXTENDS Integers, Sequences, FiniteSets, TLC

VARIABLES
    argOptions,   \* OptParser::argOptions, the registered descriptors in order
    present,      \* Opt::present of each registered descriptor
    pValue,       \* the typed pValue of each registered descriptor
    programName,  \* OptParser::programName
    programArgc,  \* OptParser::programArgc
    programArgv,  \* OptParser::programArgv: NullPtr, or the argv index it points to
    argv,         \* the argument vector given to parse (argv[0] is argv[1] here)
    index,        \* the loop variable of parse(int, char**)
    pc,           \* "scanning", "returned" (normal return) or "thrown"
    exc,          \* the message of the ParseException in flight, <<>> if none
    resolved,     \* the calls parse(key, isValPresent, value) made so far
    before,       \* present, pValue and the length of resolved before the last
                  \* token (or direct call) was processed
    direct,       \* the direct calls opt.defaultHandler(isPresent, value) made so far
    chain         \* the registry of the OptParser the last add() of the chain
                  \* parser.add(..).add(..) returned (add returns by value)

vars == <<argOptions, present, pValue, programName, programArgc, programArgv,
          argv, index, pc, exc, resolved, before, direct, chain>>

----------------------------------------------------------------------------
(* Characters and strings *)

DigitChars == <<"0", "1", "2", "3", "4", "5", "6", "7", "8", "9">>

IsDigit(c) == \E i \in 1..10 : DigitChars[i] = c

IsSpace(c) == c = " "

DigitVal(c) == (CHOOSE i \in 1..10 : DigitChars[i] = c) - 1

NPOS == -1

\* std::string::find of a single character: 0-based position or NPOS
Find(str, c) ==
    IF \E i \in 1..Len(str) : str[i] = c
    THEN (CHOOSE i \in 1..Len(str) : str[i] = c /\ \A j \in 1..(i - 1) : str[j] # c) - 1
    ELSE NPOS

\* std::string::substr(pos, n), pos <= length
Substr(str, pos, n) ==
    SubSeq(str, pos + 1, IF pos + n < Len(str) THEN pos + n ELSE Len(str))

\* isUint looking at the first character only
isUint_FirstCharOnly(s) == s = <<>> \/ IsDigit(s[1])

isUint(s) == \A i \in 1..Len(s) : IsDigit(s[i])

----------------------------------------------------------------------------
(* Decimal conversion: strtoll / strtoull as used by std::stoll, std::stoull *)

LLONG_MAX_MAG == <<"9","2","2","3","3","7","2","0","3","6","8","5","4","7","7","5","8","0","7">>
LLONG_MIN_MAG == <<"9","2","2","3","3","7","2","0","3","6","8","5","4","7","7","5","8","0","8">>
ULLONG_MAX_MAG == <<"1","8","4","4","6","7","4","4","0","7","3","7","0","9","5","5","1","6","1","5">>

\* a magnitude is a digit sequence without leading zeros (zero is <<"0">>)
MagLess(a, b) ==
    \/ Len(a) < Len(b)
    \/ /\ Len(a) = Len(b)
       /\ \E i \in 1..Len(a) :
            /\ DigitVal(a[i]) < DigitVal(b[i])
            /\ \A j \in 1..(i - 1) : a[j] = b[j]

RECURSIVE SkipSpace(_)
SkipSpace(s) == IF s # <<>> /\ IsSpace(s[1]) THEN SkipSpace(Tail(s)) ELSE s

RECURSIVE DigitPrefix(_)
DigitPrefix(s) ==
    IF s # <<>> /\ IsDigit(s[1]) THEN <<s[1]>> \o DigitPrefix(Tail(s)) ELSE <<>>

RECURSIVE StripZeros(_)
StripZeros(d) == IF Len(d) > 1 /\ d[1] = "0" THEN StripZeros(Tail(d)) ELSE d

\* stoll with the bound of the negative side used for both signs
stoll_SymmetricBound(value) ==
    LET s    == SkipSpace(value)
        neg  == s # <<>> /\ s[1] = "-"
        body == IF s # <<>> /\ s[1] \in {"-", "+"} THEN Tail(s) ELSE s
        digs == DigitPrefix(body)
        mag  == StripZeros(digs)
    IN  IF digs = <<>> THEN [status |-> "invalid_argument"]
        ELSE IF MagLess(LLONG_MIN_MAG, mag) THEN [status |-> "out_of_range"]
        ELSE [status |-> "ok", val |-> [neg |-> neg /\ mag # <<"0">>, mag |-> mag]]

\* std::stoll(value): leading white space skipped, optional sign, the longest
\* run of digits; what follows the digits is ignored.
stoll(value) ==
    LET s    == SkipSpace(value)
        neg  == s # <<>> /\ s[1] = "-"
        body == IF s # <<>> /\ s[1] \in {"-", "+"} THEN Tail(s) ELSE s
        digs == DigitPrefix(body)
        mag  == StripZeros(digs)
    IN  IF digs = <<>> THEN [status |-> "invalid_argument"]
        ELSE IF neg /\ MagLess(LLONG_MIN_MAG, mag) THEN [status |-> "out_of_range"]
        ELSE IF ~neg /\ MagLess(LLONG_MAX_MAG, mag) THEN [status |-> "out_of_range"]
        ELSE [status |-> "ok", val |-> [neg |-> neg /\ mag # <<"0">>, mag |-> mag]]

\* std::stoull(value) on a text isUint accepted (digits only, possibly empty)
stoull(value) ==
    LET digs == DigitPrefix(SkipSpace(value))
        mag  == StripZeros(digs)
    IN  IF digs = <<>> THEN [status |-> "invalid_argument"]
        ELSE IF MagLess(ULLONG_MAX_MAG, mag) THEN [status |-> "out_of_range"]
        ELSE [status |-> "ok", val |-> mag]

----------------------------------------------------------------------------
(* Option descriptors and their defaultHandler *)

NoExc == <<>>

\* the user callbacks: nullptr, or the customChecker of testOptParser0
\* (given to an IntOpt; throws when x > 1000)
UserHandler(h, v) ==
    IF h = "customChecker" /\ ~v.neg /\ MagLess(<<"1","0","0","0">>, v.mag)
    THEN <<"Value is more that 1000">>
    ELSE NoExc

\* each handler gives the pValue afterwards and the exception thrown, if any

\* BoolOpt::defaultHandler storing "no value-less occurrence" when it rejects
BoolOptDefaultHandler_ClearOnValue(o, cur, isPresent, value) ==
    IF isPresent
    THEN [pValue |-> FALSE, exc |-> <<"Argument does not expect a value">>]
    ELSE [pValue |-> TRUE, exc |-> UserHandler(o.userHandler, TRUE)]

BoolOptDefaultHandler(o, cur, isPresent, value) ==
    IF isPresent
    THEN [pValue |-> cur, exc |-> <<"Argument does not expect a value">>]
    ELSE [pValue |-> TRUE, exc |-> UserHandler(o.userHandler, TRUE)]

IntOptDefaultHandler(o, cur, isPresent, value) ==
    IF ~isPresent
    THEN [pValue |-> cur, exc |-> <<"Argument expects an integer value">>]
    ELSE LET r == stoll(value)
         IN  CASE r.status = "out_of_range" ->
                    [pValue |-> cur, exc |-> <<"Value is not in range of a 64 bit int">>]
               [] r.status = "invalid_argument" ->
                    [pValue |-> cur, exc |-> <<"Argument expects an integer value">>]
               [] OTHER ->
                    [pValue |-> r.val, exc |-> UserHandler(o.userHandler, r.val)]

UintOptDefaultHandler(o, cur, isPresent, value) ==
    IF ~isPresent \/ ~isUint(value)
    THEN [pValue |-> cur, exc |-> <<"Argument expects an non negative int value">>]
    ELSE LET r == stoull(value)
         IN  CASE r.status = "out_of_range" ->
                    [pValue |-> cur,
                     exc |-> <<"Value is not in range of a 64 bit unsigned integer">>]
               [] r.status = "invalid_argument" ->
                    [pValue |-> cur, exc |-> <<"Argument expects an non negative int value">>]
               [] OTHER ->
                    [pValue |-> r.val, exc |-> UserHandler(o.userHandler, r.val)]

StrOptDefaultHandler(o, cur, isPresent, value) ==
    IF ~isPresent
    THEN [pValue |-> cur, exc |-> <<"Argument expects a value">>]
    ELSE [pValue |-> value, exc |-> UserHandler(o.userHandler, value)]

\* the virtual call it->get().defaultHandler(isValPresent, value)
defaultHandler(o, cur, isPresent, value) ==
    CASE o.kind = "BoolOpt" -> BoolOptDefaultHandler(o, cur, isPresent, value)
      [] o.kind = "IntOpt"  -> IntOptDefaultHandler(o, cur, isPresent, value)
      [] o.kind = "UintOpt" -> UintOptDefaultHandler(o, cur, isPresent, value)
      [] OTHER              -> StrOptDefaultHandler(o, cur, isPresent, value)

----------------------------------------------------------------------------
(* Registry lookup and per-option resolution *)

\* argOptions.end() is one past the last registered descriptor
End == Len(argOptions) + 1

\* a lookup returning the last registered descriptor whose short name is c
findArgByShortName_LastMatch(c) ==
    IF \E i \in 1..Len(argOptions) : argOptions[i].shortName = c
    THEN CHOOSE i \in 1..Len(argOptions) :
            /\ argOptions[i].shortName = c
            /\ \A j \in (i + 1)..Len(argOptions) : argOptions[j].shortName # c
    ELSE Len(argOptions) + 1

\* std::find_if: the first registered descriptor whose short name is c
findArgByShortName(c) ==
    IF \E i \in 1..Len(argOptions) : argOptions[i].shortName = c
    THEN CHOOSE i \in 1..Len(argOptions) :
            /\ argOptions[i].shortName = c
            /\ \A j \in 1..(i - 1) : argOptions[j].shortName # c
    ELSE End

findArgByLongName(name) ==
    IF \E i \in 1..Len(argOptions) : argOptions[i].longName = name
    THEN CHOOSE i \in 1..Len(argOptions) :
            /\ argOptions[i].longName = name
            /\ \A j \in 1..(i - 1) : argOptions[j].longName # name
    ELSE End

\* The parser state a resolution works on: st.present, st.pValue, st.exc and
\* st.resolved.  A resolution that throws leaves st.exc # NoExc.

\* the resolution marking the option present only after its handler returned
Resolve_PresentOnSuccess(st, it, key, isValPresent, value) ==
    LET h == defaultHandler(argOptions[it], st.pValue[it], isValPresent, value)
    IN  [st EXCEPT !.present[it] = IF h.exc = NoExc THEN TRUE ELSE @,
                   !.pValue[it] = h.pValue,
                   !.exc = IF h.exc = NoExc THEN NoExc
                           ELSE <<"Parsing of ">> \o key \o <<" failed: ">> \o h.exc]

\* the resolution without the catch: the handler's exception goes up as it is
Resolve_Unwrapped(st, it, key, isValPresent, value) ==
    LET h == defaultHandler(argOptions[it], st.pValue[it], isValPresent, value)
    IN  [st EXCEPT !.present[it] = TRUE,
                   !.pValue[it] = h.pValue,
                   !.exc = h.exc]

\* the resolution throwing its own message without exp.what()
Resolve_PrefixOnly(st, it, key, isValPresent, value) ==
    LET h == defaultHandler(argOptions[it], st.pValue[it], isValPresent, value)
    IN  [st EXCEPT !.present[it] = TRUE,
                   !.pValue[it] = h.pValue,
                   !.exc = IF h.exc = NoExc THEN NoExc
                           ELSE <<"Parsing of ">> \o key \o <<" failed: ">>]

\* it->get().setPresent(); it->get().defaultHandler(isValPresent, value);
\* a ParseException is caught and thrown again with the key in front
Resolve(st, it, key, isValPresent, value) ==
    LET h == defaultHandler(argOptions[it], st.pValue[it], isValPresent, value)
    IN  [st EXCEPT !.present[it] = TRUE,
                   !.pValue[it] = h.pValue,
                   !.exc = IF h.exc = NoExc THEN NoExc
                           ELSE <<"Parsing of ">> \o key \o <<" failed: ">> \o h.exc]

\* OptParser::parse(std::string key, bool isValPresent, std::string value)
parseLongKey(st, key, isValPresent, value) ==
    LET it  == findArgByLongName(key)
        log == [st EXCEPT !.resolved = Append(@, [key |-> key, it |-> it, byShort |-> FALSE,
                              isValPresent |-> isValPresent, value |-> value])]
    IN  IF it = End
        THEN [log EXCEPT !.exc = <<"No such option ">> \o key]
        ELSE Resolve(log, it, key, isValPresent, value)

\* parse(char, ...) passing over a name it does not find
parseShortKey_IgnoreUnknown(st, key, isValPresent, value) ==
    LET it  == findArgByShortName(key)
        log == [st EXCEPT !.resolved = Append(@, [key |-> <<key>>, it |-> it, byShort |-> TRUE,
                              isValPresent |-> isValPresent, value |-> value])]
    IN  IF it = End
        THEN log
        ELSE Resolve(log, it, <<key>>, isValPresent, value)

\* OptParser::parse(char key, bool isValPresent, std::string value)
parseShortKey(st, key, isValPresent, value) ==
    LET it  == findArgByShortName(key)
        log == [st EXCEPT !.resolved = Append(@, [key |-> <<key>>, it |-> it, byShort |-> TRUE,
                              isValPresent |-> isValPresent, value |-> value])]
    IN  IF it = End
        THEN [log EXCEPT !.exc = <<"No such option ">> \o <<key>>]
        ELSE Resolve(log, it, <<key>>, isValPresent, value)

\* the two loops of parseShortName from position i on (0-based); the first
\* exception ends the loop
RECURSIVE parseShortArgs(_, _, _, _, _)
parseShortArgs(st, args, i, withValue, value) ==
    IF i >= Len(args) THEN st
    ELSE LET st2 == IF withValue /\ i = Len(args) - 1
                    THEN parseShortKey(st, args[i + 1], TRUE, value)
                    ELSE parseShortKey(st, args[i + 1], FALSE, <<>>)
         IN  IF st2.exc # NoExc THEN st2
             ELSE parseShortArgs(st2, args, i + 1, withValue, value)

\* parseShortName taking the value from the "=" on instead of after it
parseShortName_ValueFromEq(st, token) ==
    LET idx == Find(token, "=")
    IN  IF idx = NPOS
        THEN parseShortArgs(st, token, 0, FALSE, <<>>)
        ELSE parseShortArgs(st, Substr(token, 0, idx), 0, TRUE,
                            Substr(token, idx, Len(token)))

\* OptParser::parseShortName(token), token being the text after the dash
parseShortName(st, token) ==
    LET idx == Find(token, "=")
    IN  IF idx = NPOS
        THEN parseShortArgs(st, token, 0, FALSE, <<>>)
        ELSE parseShortArgs(st, Substr(token, 0, idx), 0, TRUE,
                            Substr(token, idx + 1, Len(token)))

\* parseLongName splitting at the last "=" (rfind) instead of the first
parseLongName_SplitAtLastEq(st, token) ==
    LET idx == IF \E i \in 1..Len(token) : token[i] = "="
               THEN (CHOOSE i \in 1..Len(token) :
                        token[i] = "=" /\ \A j \in (i + 1)..Len(token) : token[j] # "=") - 1
               ELSE NPOS
    IN  IF idx = NPOS
        THEN parseLongKey(st, token, FALSE, <<>>)
        ELSE parseLongKey(st, Substr(token, 0, idx), TRUE,
                          Substr(token, idx + 1, Len(token)))

\* OptParser::parseLongName(token), token being the text after the two dashes
parseLongName(st, token) ==
    LET idx == Find(token, "=")
    IN  IF idx = NPOS
        THEN parseLongKey(st, token, FALSE, <<>>)
        ELSE parseLongKey(st, Substr(token, 0, idx), TRUE,
                          Substr(token, idx + 1, Len(token)))

\* parseProgramName without the test of the slot already being filled
parseProgramName_Overwrite(cur, name) ==
    [programName |-> name, exc |-> NoExc]

\* OptParser::parseProgramName(name): the new programName and the exception
parseProgramName(cur, name) ==
    IF cur # <<>>
    THEN [programName |-> cur, exc |-> <<"Bad option - ">> \o name]
    ELSE [programName |-> name, exc |-> NoExc]

----------------------------------------------------------------------------
(* The descriptors and registries of the tests *)

Str_is == <<"i", "s">>
Str_js == <<"j", "s">>
Str_ks == <<"k", "s">>
Str_ls == <<"l", "s">>
Str_Blah == <<"B", "l", "a", "h">>
Int_1100 == [neg |-> FALSE, mag |-> <<"1", "1", "0", "0">>]
Uint_2200 == <<"2", "2", "0", "0">>

\* the short name the long-name-only constructors store
NoShortName == "-"

Opt(kind, shortName, longName, defaultValue, userHandler) ==
    [kind |-> kind, shortName |-> shortName, longName |-> longName,
     defaultValue |-> defaultValue, userHandler |-> userHandler]

\* testOptParser4 and testOptParser5: is, js, ks (long name only), ls
RegistryTest5 ==
    << Opt("BoolOpt", "i", Str_is, FALSE, "nullptr"),
       Opt("IntOpt", "j", Str_js, Int_1100, "nullptr"),
       Opt("UintOpt", NoShortName, Str_ks, Uint_2200, "nullptr"),
       Opt("StrOpt", "l", Str_ls, Str_Blah, "nullptr") >>

\* the same options with the other constructors: is defaulting to true, js
\* with the customChecker of testOptParser0, ks with a short name, ls with
\* a long name only (testOptParser3)
RegistryTest3 ==
    << Opt("BoolOpt", "i", Str_is, TRUE, "nullptr"),
       Opt("IntOpt", "j", Str_js, Int_1100, "customChecker"),
       Opt("UintOpt", "k", Str_ks, Uint_2200, "nullptr"),
       Opt("StrOpt", NoShortName, Str_ls, Str_Blah, "nullptr") >>

Registries == {RegistryTest5, RegistryTest3}

----------------------------------------------------------------------------
(* OptParser::parse(int argc, char *argv[]), one loop iteration per step *)

NullPtr == -1

argc == Len(argv)

\* char *current = argv[index]
current == argv[index + 1]

Snapshot == [present |-> present, pValue |-> pValue, nresolved |-> Len(resolved)]

InitParser(reg, args) ==
    /\ argOptions = reg
    /\ present = [i \in 1..Len(reg) |-> FALSE]
    /\ pValue = [i \in 1..Len(reg) |-> reg[i].defaultValue]
    /\ programName = <<>>
    /\ programArgc = 0
    /\ programArgv = NullPtr
    /\ argv = args
    /\ index = 1
    /\ exc = NoExc
    /\ resolved = <<>>
    /\ before = [present |-> [i \in 1..Len(reg) |-> FALSE],
                 pValue |-> [i \in 1..Len(reg) |-> reg[i].defaultValue],
                 nresolved |-> 0]
    /\ direct = <<>>
    \* the tests build the registry with parser = parser.add(is).add(js)...
    /\ chain = reg

\* the option branches with the exception swallowed and the scan going on
AfterOption_Swallow(st) ==
    /\ present' = st.present
    /\ pValue' = st.pValue
    /\ resolved' = st.resolved
    /\ exc' = NoExc
    /\ pc' = "scanning" /\ index' = index + 1
    /\ before' = Snapshot
    /\ UNCHANGED <<argOptions, programName, programArgc, programArgv, argv, direct, chain>>

\* what a token's resolution leaves behind: the descriptors as mutated, and
\* either the next index or the exception
AfterOption(st) ==
    /\ present' = st.present
    /\ pValue' = st.pValue
    /\ resolved' = st.resolved
    /\ exc' = st.exc
    /\ IF st.exc = NoExc
       THEN pc' = "scanning" /\ index' = index + 1
       ELSE pc' = "thrown" /\ index' = index
    /\ before' = Snapshot
    /\ UNCHANGED <<argOptions, programName, programArgc, programArgv, argv, direct, chain>>

ParserState ==
    [present |-> present, pValue |-> pValue, exc |-> NoExc, resolved |-> resolved]

\* len < 2, or no leading dash: parseProgramName(current)
ProgramNameToken ==
    /\ pc = "scanning" /\ index < argc
    /\ IF Len(current) < 2 THEN TRUE ELSE current[1] # "-"
    /\ LET r == parseProgramName(programName, current)
       IN  /\ programName' = r.programName
           /\ exc' = r.exc
           /\ IF r.exc = NoExc
              THEN pc' = "scanning" /\ index' = index + 1
              ELSE pc' = "thrown" /\ index' = index
    /\ before' = Snapshot
    /\ UNCHANGED <<argOptions, present, pValue, programArgc, programArgv, argv,
                   resolved, direct, chain>>

\* the "--" branch without ++index before the residual is taken
TerminatorToken_NoIncrement ==
    /\ pc = "scanning" /\ index < argc
    /\ current = <<"-", "-">>
    /\ IF programName = <<>>
       THEN /\ pc' = "thrown"
            /\ exc' = <<"Program filename must be specified before arguments">>
            /\ UNCHANGED <<index, programArgc, programArgv>>
       ELSE /\ index' = index + 1
            /\ programArgc' = argc - index
            /\ programArgv' = index
            /\ pc' = "returned"
            /\ exc' = NoExc
    /\ before' = Snapshot
    /\ UNCHANGED <<argOptions, present, pValue, programName, argv, resolved, direct, chain>>

\* the "--" branch without the test of programName
TerminatorToken_NoNameCheck ==
    /\ pc = "scanning" /\ index < argc
    /\ current = <<"-", "-">>
    /\ index' = index + 1
    /\ programArgc' = argc - (index + 1)
    /\ programArgv' = index + 1
    /\ pc' = "returned"
    /\ exc' = NoExc
    /\ before' = Snapshot
    /\ UNCHANGED <<argOptions, present, pValue, programName, argv, resolved, direct, chain>>

\* strcmp(current, "--") == 0
TerminatorToken ==
    /\ pc = "scanning" /\ index < argc
    /\ current = <<"-", "-">>
    /\ IF programName = <<>>
       THEN /\ pc' = "thrown"
            /\ exc' = <<"Program filename must be specified before arguments">>
            /\ UNCHANGED <<index, programArgc, programArgv>>
       ELSE /\ index' = index + 1
            /\ programArgc' = argc - (index + 1)
            /\ programArgv' = index + 1
            /\ pc' = "returned"
            /\ exc' = NoExc
    /\ before' = Snapshot
    /\ UNCHANGED <<argOptions, present, pValue, programName, argv, resolved, direct, chain>>

\* current[0] == '-' && current[1] == '-': parseLongName(&current[2])
LongOptionToken ==
    /\ pc = "scanning" /\ index < argc
    /\ Len(current) >= 2 /\ current # <<"-", "-">>
    /\ current[1] = "-" /\ current[2] = "-"
    /\ AfterOption(parseLongName(ParserState, SubSeq(current, 3, Len(current))))

\* current[0] == '-' otherwise: parseShortName(&current[1])
ShortOptionToken ==
    /\ pc = "scanning" /\ index < argc
    /\ Len(current) >= 2
    /\ current[1] = "-" /\ current[2] # "-"
    /\ AfterOption(parseShortName(ParserState, SubSeq(current, 2, Len(current))))

\* index == argc: the loop ends and parse returns
EndOfArguments ==
    /\ pc = "scanning" /\ index >= argc
    /\ pc' = "returned"
    /\ UNCHANGED <<argOptions, present, pValue, programName, programArgc,
                   programArgv, argv, index, exc, resolved, before, direct, chain>>

Next ==
    \/ ProgramNameToken
    \/ TerminatorToken
    \/ LongOptionToken
    \/ ShortOptionToken
    \/ EndOfArguments

\* getProgramArgv()[0..getProgramArgc()-1], as the caller reads them
ResidualArgs ==
    IF programArgv = NullPtr THEN <<>>
    ELSE SubSeq(argv, programArgv + 1, programArgv + programArgc)

----------------------------------------------------------------------------
(* The argument vectors parse is run on *)

\* argv[0], the invocation path, which parse never reads
Argv0 == <<"z", "e", "t", "a">>

\* the tokens of the parser runs: positionals (empty, one character, no
\* dash), the terminator, and the option tokens of the tests
Tokens ==
    { <<>>,
      <<"a">>,
      <<"p", "g">>,
      <<"-", "-">>,
      <<"-", "-", "i", "s">>,
      <<"-", "i", "j", "=", "1", "0", "0">>,
      <<"-", "x", "=", "4">>,
      <<"-", "-", "i", "s", "=", "1">>,
      <<"-", "j", "=", "2", "0", "0", "0">>,
      <<"-", "-", "l", "s", "=", "a", " ", "b">>,
      <<"-", "i", "x">>,
      <<"-", "i", "=", "1">> }

MaxArgs == 4

\* every argument vector of up to MaxArgs tokens after argv[0]
Init ==
    /\ pc = "scanning"
    /\ \E reg \in Registries, n \in 0..MaxArgs :
         \E args \in [1..n -> Tokens] : InitParser(reg, <<Argv0>> \o args)

Spec == Init /\ [][Next]_vars

\* Single tokens in every shape of the grammar: a short cluster or a long
\* name, alone or with "=" and a value attached.
Clusters ==
    { <<>>,
      <<"i">>,
      <<"j">>,
      <<"k">>,
      <<"l">>,
      <<"x">>,
      <<"i", "j">>,
      <<"j", "i">>,
      <<"i", "l">>,
      <<"i", "x">>,
      <<"x", "i">>,
      <<"i", "-">>,
      <<"i", "i", "j">> }

LongNames ==
    { <<>>,
      <<"i">>,
      <<"i", "s">>,
      <<"j", "s">>,
      <<"k", "s">>,
      <<"l", "s">>,
      <<"x", "s">> }

Values ==
    { <<"1", "0", "0">>,
      <<>>,
      <<"4">>,
      <<"a", "=", "b">>,
      <<"s", "o", "m", "e", " ", "o", "t", "h", "e", "r", " ", "v", "a", "l", "u", "e">>,
      <<" ", "7", " ">>,
      <<"-", "2", "2">>,
      <<"2", "0", "0", "0">>,
      <<"1", "2", "a", "b", "c">>,
      <<"9", "2", "2", "3", "3", "7", "2", "0", "3", "6", "8", "5", "4", "7", "7", "5", "8", "0", "8">> }

Suffixes == {<<>>} \cup { <<"=">> \o v : v \in Values }

ShapedTokens ==
    { <<"-">> \o c \o x : c \in Clusters, x \in Suffixes }
      \cup { <<"-", "-">> \o n \o x : n \in LongNames, x \in Suffixes }
      \cup Tokens

MaxPrefix == 1

\* up to MaxPrefix tokens of Tokens, then one token of ShapedTokens
InitShaped ==
    /\ pc = "scanning"
    /\ \E reg \in Registries, n \in 0..MaxPrefix :
         \E args \in [1..n -> Tokens], t \in ShapedTokens :
            InitParser(reg, <<Argv0>> \o args \o <<t>>)

SpecShaped == InitShaped /\ [][Next]_vars

----------------------------------------------------------------------------
(* Direct calls of defaultHandler on one descriptor, as testOptParser0, *)
(* testOptParser1 and testOptParser2 make them                           *)

NumericTexts ==
    { <<"0">>,
      <<"-", "0">>,
      <<"0", "0", "7">>,
      <<"+", "5">>,
      <<"4", "5">>,
      <<"4", "1", "0", "0">>,
      <<"1", "0", "0", "0">>,
      <<"1", "0", "0", "1">>,
      <<"a", "b", "c">>,
      <<"-">>,
      <<"1", " ", "2">>,
      <<"-", "5", "x">>,
      <<"9", "2", "2", "3", "3", "7", "2", "0", "3", "6", "8", "5", "4", "7", "7", "5", "8", "0", "7">>,
      <<"-", "9", "2", "2", "3", "3", "7", "2", "0", "3", "6", "8", "5", "4", "7", "7", "5", "8", "0", "8">>,
      <<"-", "9", "2", "2", "3", "3", "7", "2", "0", "3", "6", "8", "5", "4", "7", "7", "5", "8", "0", "9">>,
      <<"1", "8", "4", "4", "6", "7", "4", "4", "0", "7", "3", "7", "0", "9", "5", "5", "1", "6", "1", "5">>,
      <<"1", "8", "4", "4", "6", "7", "4", "4", "0", "7", "3", "7", "0", "9", "5", "5", "1", "6", "1", "6">>,
      <<"9", "9", "9", "9", "9", "9", "9", "9", "9", "9", "9", "9", "9", "9", "9", "9", "9", "9", "9", "9">>,
      <<"-", "1", "8", "4", "4", "6", "7", "4", "4", "0", "7", "3", "7", "0", "9", "5", "5", "1", "6", "1", "5">> }

DirectValues == Values \cup NumericTexts

\* the descriptors of the two registries
DirectOpts == { reg[i] : reg \in Registries, i \in 1..4 }

MaxCalls == 2

InitDirect ==
    /\ pc = "direct"
    /\ \E o \in DirectOpts : InitParser(<<o>>, <<Argv0>>)

\* opt.defaultHandler(isPresent, value); the caller sees the exception as thrown
CallDefaultHandler ==
    /\ pc = "direct" /\ Len(direct) < MaxCalls
    /\ \E isPresent \in BOOLEAN, value \in DirectValues :
         \* without a value the callers pass the default argument ""
         /\ isPresent \/ value = <<>>
         /\ LET h == defaultHandler(argOptions[1], pValue[1], isPresent, value)
            IN  /\ pValue' = [pValue EXCEPT ![1] = h.pValue]
                /\ exc' = h.exc
                /\ direct' = Append(direct, [isPresent |-> isPresent, value |-> value])
    /\ before' = Snapshot
    /\ UNCHANGED <<argOptions, present, programName, programArgc, programArgv,
                   argv, index, pc, resolved, chain>>

NextDirect == CallDefaultHandler

SpecDirect == InitDirect /\ [][NextDirect]_vars

\* the arguments of the last direct call
LastCall == direct[Len(direct)]

----------------------------------------------------------------------------
(* What the properties below read off a state *)

\* the argv index of the last token processed (0: none yet); a token that
\* threw leaves index on it
LastIdx == IF pc = "thrown" THEN index ELSE index - 1

TokenAt(k) == argv[k + 1]

LastToken == TokenAt(LastIdx)

\* the resolutions the last token made
LastResolved == SubSeq(resolved, before.nresolved + 1, Len(resolved))

Targets(calls) == { calls[i].it : i \in 1..Len(calls) }

HasEq(t) == \E k \in 1..Len(t) : t[k] = "="

\* the place of the first "=" of t, counted from 1
FirstEq(t) == CHOOSE k \in 1..Len(t) : t[k] = "=" /\ \A j \in 1..(k - 1) : t[j] # "="

IsTerminator(t) == t = <<"-", "-">>

IsShortCluster(t) == Len(t) >= 2 /\ t[1] = "-" /\ t[2] # "-"

IsLongOption(t) == Len(t) > 2 /\ t[1] = "-" /\ t[2] = "-"

IsPositional(t) == IF Len(t) < 2 THEN TRUE ELSE t[1] # "-"

\* descriptor d is as it was before the last token
Untouched(d) == present[d] = before.present[d] /\ pValue[d] = before.pValue[d]

Wrapped(key, inner) == <<"Parsing of ">> \o key \o <<" failed: ">> \o inner

Tok_ij100 == <<"-", "i", "j", "=", "1", "0", "0">>
Int_100 == [neg |-> FALSE, mag |-> <<"1", "0", "0">>]

----------------------------------------------------------------------------
(* C1: a short cluster -c1..cn=value (n >= 1) resolves c1..c(n-1) from left
   to right without a value and cn with the value attached, the value being
   the text after the first "="; the resolutions stop at the first failure
   and no descriptor the cluster does not name is changed.  For -ij=100
   with boolean i and integer j: i is present and true, j is present and
   100, every other option is as before. *)
C1_ShortClusterValue ==
    (LastIdx >= 1 /\ IsShortCluster(LastToken) /\ HasEq(LastToken)
       /\ FirstEq(LastToken) > 2)
    => LET t     == LastToken
           k     == FirstEq(t)
           names == SubSeq(t, 2, k - 1)
           n     == Len(names)
           value == SubSeq(t, k + 1, Len(t))
           calls == LastResolved
       IN  /\ Len(calls) <= n
           /\ pc # "thrown" => Len(calls) = n
           /\ pc = "thrown" => Len(calls) >= 1
           /\ \A i \in 1..Len(calls) :
                /\ calls[i].key = <<names[i]>>
                /\ calls[i].isValPresent = (i = n)
                /\ calls[i].value = IF i = n THEN value ELSE <<>>
           /\ \A d \in 1..Len(argOptions) : d \notin Targets(calls) => Untouched(d)
           /\ (t = Tok_ij100 /\ argOptions[1].shortName = "i"
                 /\ argOptions[2].shortName = "j")
              => /\ pc # "thrown" /\ exc = NoExc
                 /\ present[1] /\ pValue[1] = TRUE
                 /\ present[2] /\ pValue[2] = Int_100
                 /\ Untouched(3) /\ Untouched(4)

\* -ij=100 alone, against the registry of testOptParser5
C1_Witness ==
    /\ argOptions = RegistryTest5
    /\ argv = <<Argv0, Tok_ij100>>
    /\ index = 2 /\ pc = "scanning"
    /\ present = <<TRUE, TRUE, FALSE, FALSE>>
    /\ pValue = <<TRUE, Int_100, Uint_2200, Str_Blah>>

(* C2: when parse reaches "--" at index k with the program name set, it
   returns normally at once: index k is the last token processed, whatever
   follows; no descriptor changes and nothing is resolved; the residual
   vector is the tokens k+1..argc-1 in order and the residual count is
   argc - k - 1. *)
C2_TerminatorCapturesResidual ==
    \A k \in 1..(argc - 1) :
        (k <= LastIdx /\ IsTerminator(TokenAt(k)) /\ programName # <<>>)
        => /\ pc = "returned" /\ exc = NoExc
           /\ LastIdx = k
           /\ present = before.present /\ pValue = before.pValue
           /\ Len(resolved) = before.nresolved
           /\ programArgc = argc - k - 1
           /\ ResidualArgs = [i \in 1..(argc - k - 1) |-> TokenAt(k + i)]

\* pg -- -x=4 a: the residual is <<-x=4, a>>, the unknown option x unresolved
C2_Witness ==
    /\ pc = "returned" /\ programArgc = 2
    /\ TokenAt(2) = <<"-", "-">>
    /\ ResidualArgs = << <<"-", "x", "=", "4">>, <<"a">> >>
    /\ resolved = <<>>

(* C3: "--" reached while the program name is empty makes parse throw
   "Program filename must be specified before arguments" and leaves the
   residual count 0 and the residual vector null; and whenever the residual
   vector is set, the program name is non-empty and the last token
   processed is a "--". *)
C3_TerminatorNeedsProgramName ==
    /\ (LastIdx >= 1 /\ IsTerminator(LastToken) /\ programName = <<>>)
       => /\ pc = "thrown"
          /\ exc = <<"Program filename must be specified before arguments">>
          /\ programArgc = 0 /\ programArgv = NullPtr
    /\ (programArgv # NullPtr \/ programArgc # 0)
       => /\ programName # <<>>
          /\ LastIdx >= 1 /\ IsTerminator(LastToken)

\* an option, then "--", with no program name given
C3_Witness ==
    /\ pc = "thrown" /\ index = 2
    /\ TokenAt(1) = <<"-", "-", "i", "s">> /\ TokenAt(2) = <<"-", "-">>
    /\ present[1] /\ programName = <<>> /\ programArgv = NullPtr

(* C4 as claimed: once a positional token (length < 2, or no leading dash)
   has been processed, every later positional token makes parse throw
   "Bad option - <token>", and the program name is the first positional
   token. *)
C4_AnyPositionalFillsSlot ==
    \A f \in 1..LastIdx :
        (IsPositional(TokenAt(f)) /\ \A m \in 1..(f - 1) : ~IsPositional(TokenAt(m)))
        => /\ programName = TokenAt(f)
           /\ \A j \in (f + 1)..LastIdx :
                IsPositional(TokenAt(j))
                => /\ pc = "thrown" /\ LastIdx = j
                   /\ exc = <<"Bad option - ">> \o TokenAt(j)

(* C4, amended: the slot is filled by the first NON-EMPTY positional token
   (an empty token leaves programName empty, which is how the parser
   records "not yet set"); from then on every positional token, empty or
   not, makes parse throw "Bad option - <token>", and the program name
   stays that first non-empty positional token. *)
C4_SingleProgramName ==
    \A f \in 1..LastIdx :
        (IsPositional(TokenAt(f)) /\ TokenAt(f) # <<>>
           /\ \A m \in 1..(f - 1) : ~(IsPositional(TokenAt(m)) /\ TokenAt(m) # <<>>))
        => /\ programName = TokenAt(f)
           /\ \A j \in (f + 1)..LastIdx :
                IsPositional(TokenAt(j))
                => /\ pc = "thrown" /\ LastIdx = j
                   /\ exc = <<"Bad option - ">> \o TokenAt(j)

\* a, then pg: the second positional throws and the name is still a
C4_Witness ==
    /\ pc = "thrown" /\ index = 2
    /\ TokenAt(1) = <<"a">> /\ TokenAt(2) = <<"p", "g">>
    /\ programName = <<"a">>
    /\ exc = <<"Bad option - ", "p", "g">>

\* the option tokens among the first n that name at least one option
NamingTokens(n) ==
    { k \in 1..n : IsLongOption(TokenAt(k))
                     \/ (IsShortCluster(TokenAt(k)) /\ TokenAt(k)[2] # "=") }

(* C5: the first failure halts the scan.  Once an exception is raised at
   token k, parse has thrown, no step follows, and the descriptors are as
   the tokens before k left them except for what token k itself resolved:
   every descriptor token k resolved is present, and a boolean resolved by
   an earlier character of the failing cluster is true.  parse has
   returned only with no exception, at the end of argv or just after "--",
   and with every resolution made having found its descriptor. *)
C5_FirstFailureHalts ==
    /\ exc # NoExc
       => /\ pc = "thrown" /\ ~ENABLED Next
          /\ LastIdx = index /\ LastIdx >= 1
          /\ \A d \in 1..Len(argOptions) :
                /\ d \notin Targets(LastResolved) => Untouched(d)
                /\ before.present[d] => present[d]
          /\ \A i \in 1..Len(LastResolved) :
                LET c == LastResolved[i]
                IN  c.it # End
                    => /\ present[c.it]
                       /\ (i < Len(LastResolved) /\ argOptions[c.it].kind = "BoolOpt")
                          => pValue[c.it] = TRUE
    /\ pc = "returned"
       => /\ exc = NoExc
          /\ index = argc \/ IsTerminator(TokenAt(index - 1))
          /\ \A i \in 1..Len(resolved) : resolved[i].it # End
          /\ Len(resolved) >= Cardinality(NamingTokens(index - 1))

\* --ls=a b, then -ix (x unknown), then one more token: ls keeps "a b", is
\* was set by the i of the failing cluster, the third token is never read
C5_Witness ==
    /\ pc = "thrown" /\ index = 2 /\ argc = 4
    /\ TokenAt(1) = <<"-", "-", "l", "s", "=", "a", " ", "b">> /\ TokenAt(2) = <<"-", "i", "x">>
    /\ exc = <<"No such option ", "x">>
    /\ present[1] /\ pValue[1] = TRUE
    /\ present[4] /\ pValue[4] = <<"a", " ", "b">>

KnownShort(c) == \E d \in 1..Len(argOptions) : argOptions[d].shortName = c

KnownLong(n) == \E d \in 1..Len(argOptions) : argOptions[d].longName = n

\* the text of an option token between its dashes and its first "=" (or end)
NamePart(t) ==
    LET from == IF IsLongOption(t) THEN 3 ELSE 2
    IN  SubSeq(t, from, IF HasEq(t) THEN FirstEq(t) - 1 ELSE Len(t))

\* an option token that names an option the registry lacks
NamesUnknown(t) ==
    \/ IsLongOption(t) /\ ~KnownLong(NamePart(t))
    \/ IsShortCluster(t) /\ \E i \in 1..Len(NamePart(t)) : ~KnownShort(NamePart(t)[i])

(* C6 as claimed: an option token (cluster or long option) that names an
   option not in the registry makes parse throw "No such option <name>",
   and the token changes no descriptor. *)
C6_UnknownTokenChangesNothing ==
    (LastIdx >= 1 /\ NamesUnknown(LastToken))
    => /\ pc = "thrown"
       /\ \E i \in 1..Len(LastResolved) :
             exc = <<"No such option ">> \o LastResolved[i].key
       /\ \A d \in 1..Len(argOptions) : Untouched(d)

(* C6, amended: when the resolution of a name (the long name, or a cluster
   character reached after the earlier characters resolved without
   failure) finds no descriptor, parse throws "No such option <name>" and
   that resolution changes no descriptor: the token has changed only the
   descriptors its earlier characters resolved.  A long option, or a
   cluster whose first character is unknown, changes no descriptor. *)
C6_UnknownOption ==
    /\ (LastIdx >= 1 /\ LastResolved # <<>>)
       => LET n == Len(LastResolved)
              c == LastResolved[n]
              unknown == IF IsLongOption(LastToken) THEN ~KnownLong(c.key)
                         ELSE ~KnownShort(c.key[1])
          IN  unknown
              => /\ pc = "thrown"
                 /\ exc = <<"No such option ">> \o c.key
                 /\ \A d \in 1..Len(argOptions) :
                       d \notin Targets(SubSeq(LastResolved, 1, n - 1)) => Untouched(d)
    /\ (LastIdx >= 1
          /\ \/ IsLongOption(LastToken) /\ ~KnownLong(NamePart(LastToken))
             \/ IsShortCluster(LastToken) /\ NamePart(LastToken) # <<>>
                  /\ ~KnownShort(NamePart(LastToken)[1]))
       => /\ pc = "thrown"
          /\ exc = <<"No such option ">>
                     \o (IF IsLongOption(LastToken) THEN NamePart(LastToken)
                         ELSE <<NamePart(LastToken)[1]>>)
          /\ \A d \in 1..Len(argOptions) : Untouched(d)

\* testOptParser4: --is, then -x=4
C6_Witness ==
    /\ pc = "thrown" /\ index = 2
    /\ TokenAt(1) = <<"-", "-", "i", "s">> /\ TokenAt(2) = <<"-", "x", "=", "4">>
    /\ exc = <<"No such option ", "x">>
    /\ present = <<TRUE, FALSE, FALSE, FALSE>>
    /\ pValue = before.pValue

(* C7: a boolean option resolved without a value is present and true; one
   resolved with a value attached makes parse throw "Argument does not
   expect a value" (under the option's name) with its stored value as it
   was before that resolution; and no token turns a true boolean false. *)
C7_BooleanOnlyBecomesTrue ==
    /\ \A i \in 1..Len(LastResolved) :
          LET c == LastResolved[i]
              d == c.it
          IN  (d # End /\ argOptions[d].kind = "BoolOpt")
              => /\ present[d]
                 /\ ~c.isValPresent
                    => /\ pValue[d] = TRUE
                       /\ i = Len(LastResolved) => exc = NoExc
                 /\ c.isValPresent
                    => /\ i = Len(LastResolved)
                       /\ pc = "thrown"
                       /\ exc = Wrapped(c.key, <<"Argument does not expect a value">>)
                       /\ pValue[d] = (before.pValue[d]
                                        \/ \E j \in 1..(i - 1) : LastResolved[j].it = d)
    /\ \A d \in 1..Len(argOptions) :
          (argOptions[d].kind = "BoolOpt" /\ before.pValue[d] = TRUE) => pValue[d] = TRUE

\* --is, then -i=1: the value is refused and is stays true
C7_Witness ==
    /\ pc = "thrown" /\ index = 2
    /\ TokenAt(1) = <<"-", "-", "i", "s">> /\ TokenAt(2) = <<"-", "i", "=", "1">>
    /\ argOptions[1].defaultValue = FALSE
    /\ present[1] /\ pValue[1] = TRUE
    /\ exc = Wrapped(<<"i">>, <<"Argument does not expect a value">>)

----------------------------------------------------------------------------
(* Decimal texts and their values, for the numeric properties *)

TwoPow63 == <<"9","2","2","3","3","7","2","0","3","6","8","5","4","7","7","5","8","0","8">>
TwoPow64 == <<"1","8","4","4","6","7","4","4","0","7","3","7","0","9","5","5","1","6","1","6">>

AllDigits(t) == t # <<>> /\ \A i \in 1..Len(t) : IsDigit(t[i])

\* an optional minus sign, then digits only
IsDecimalText(t) ==
    /\ t # <<>>
    /\ AllDigits(IF t[1] = "-" THEN Tail(t) ELSE t)

\* the magnitude of an all-digit text: the text from its first non-zero digit
Magnitude(t) ==
    IF \A i \in 1..Len(t) : t[i] = "0" THEN <<"0">>
    ELSE SubSeq(t, CHOOSE i \in 1..Len(t) : t[i] # "0" /\ \A j \in 1..(i - 1) : t[j] = "0",
                Len(t))

DecimalNeg(t) == t[1] = "-"

DecimalMag(t) == Magnitude(IF t[1] = "-" THEN Tail(t) ELSE t)

\* -2^63 <= value <= 2^63 - 1
InInt64(neg, mag) == IF neg THEN ~MagLess(TwoPow63, mag) ELSE MagLess(mag, TwoPow63)

(* C8: for a signed-integer option, a decimal text (optional minus sign and
   digits) whose value lies in [-2^63, 2^63-1] is stored as that integer;
   one outside the range throws "Value is not in range of a 64 bit int"
   and leaves the stored value as it was; a call with no value throws and
   leaves the stored value as it was. *)
C8_SignedIntegerRange ==
    (Len(direct) >= 1 /\ argOptions[1].kind = "IntOpt")
    => LET c   == LastCall
           old == before.pValue[1]
       IN  /\ ~c.isPresent
              => exc = <<"Argument expects an integer value">> /\ pValue[1] = old
           /\ (c.isPresent /\ IsDecimalText(c.value))
              => LET neg == DecimalNeg(c.value)
                     mag == DecimalMag(c.value)
                 IN  IF InInt64(neg, mag)
                     THEN /\ pValue[1] = [neg |-> neg /\ mag # <<"0">>, mag |-> mag]
                          /\ argOptions[1].userHandler = "nullptr" => exc = NoExc
                     ELSE /\ exc = <<"Value is not in range of a 64 bit int">>
                          /\ pValue[1] = old

\* testOptParser1: 2^63 is refused and js keeps 1100
C8_Witness ==
    /\ argOptions[1].kind = "IntOpt"
    /\ direct = <<[isPresent |-> TRUE, value |-> TwoPow63]>>
    /\ exc = <<"Value is not in range of a 64 bit int">>
    /\ pValue[1] = Int_1100

(* C9: for an unsigned-integer option, a text with any non-digit character
   (such as the minus sign of -22) throws and leaves the stored value as it
   was; so do a missing value and an empty value; an all-digit text of
   value at most 2^64-1 is stored as that value (9223372036854775808 gives
   2^63); an all-digit text above 2^64-1 throws "Value is not in range of a
   64 bit unsigned integer" and leaves the stored value as it was. *)
C9_UnsignedIntegerDigitsOnly ==
    (Len(direct) >= 1 /\ argOptions[1].kind = "UintOpt")
    => LET c   == LastCall
           v   == c.value
           old == before.pValue[1]
       IN  /\ (~c.isPresent \/ v = <<>> \/ \E i \in 1..Len(v) : ~IsDigit(v[i]))
              => /\ exc = <<"Argument expects an non negative int value">>
                 /\ pValue[1] = old
           /\ (c.isPresent /\ AllDigits(v))
              => IF MagLess(Magnitude(v), TwoPow64)
                 THEN pValue[1] = Magnitude(v) /\ exc = NoExc
                 ELSE /\ exc = <<"Value is not in range of a 64 bit unsigned integer">>
                      /\ pValue[1] = old
           /\ (c.isPresent /\ v = TwoPow63) => pValue[1] = TwoPow63

\* testOptParser2: -22 is refused, then 9223372036854775808 is stored
C9_Witness ==
    /\ argOptions[1].kind = "UintOpt"
    /\ direct = <<[isPresent |-> TRUE, value |-> <<"-", "2", "2">>],
                  [isPresent |-> TRUE, value |-> TwoPow63]>>
    /\ before.pValue[1] = Uint_2200
    /\ pValue[1] = TwoPow63 /\ exc = NoExc

----------------------------------------------------------------------------
(* C10: a long-option token --name=value is split at its first "=": the
   name looked up is the text between "--" and that "=", the raw value is
   all the text after it (empty, or with further "=" or spaces), and a
   string option stores it verbatim; a long-option token without "=" is
   resolved with no value attached.  The one resolution goes to the first
   descriptor of that long name, if there is one. *)
C10_LongOptionSplit ==
    (LastIdx >= 1 /\ IsLongOption(LastToken))
    => LET t == LastToken
           c == LastResolved[1]
       IN  /\ Len(LastResolved) = 1
           /\ IF c.it = End THEN ~KnownLong(c.key)
              ELSE argOptions[c.it].longName = c.key /\ present[c.it]
           /\ IF HasEq(t)
              THEN LET k == FirstEq(t)
                       text == SubSeq(t, k + 1, Len(t))
                   IN  /\ c.key = SubSeq(t, 3, k - 1)
                       /\ c.isValPresent /\ c.value = text
                       /\ (c.it # End /\ argOptions[c.it].kind = "StrOpt")
                          => /\ exc = NoExc /\ pc # "thrown"
                             /\ pValue[c.it] = text
              ELSE /\ c.key = SubSeq(t, 3, Len(t))
                   /\ ~c.isValPresent /\ c.value = <<>>

Tok_ls_some_other_value == <<"-", "-", "l", "s", "=", "s", "o", "m", "e", " ", "o", "t", "h", "e", "r", " ", "v", "a", "l", "u", "e">>

\* testOptParser3: --ls=some other value
C10_Witness ==
    /\ argv = <<Argv0, Tok_ls_some_other_value>>
    /\ index = 2 /\ pc = "scanning"
    /\ present[4]
    /\ pValue[4] = <<"s", "o", "m", "e", " ", "o", "t", "h", "e", "r", " ", "v", "a", "l", "u", "e">>

----------------------------------------------------------------------------
(* Building the registry with a chain of add() calls, then parsing *)

\* OptParser::add(opt) on a parser whose registry is reg: the registry after
\* the push_back, and the registry of the OptParser it returns.  The return
\* type is OptParser, not OptParser&: the caller gets a copy of *this.
add(reg, opt) ==
    [argOptions |-> Append(reg, opt), returned |-> Append(reg, opt)]

MaxAdds == 3

\* parser.add(o): the first call of the chain, on the parser itself
AddOnParser ==
    /\ pc = "building" /\ chain = <<>>
    /\ \E i \in 1..Len(RegistryTest5) :
         LET r == add(argOptions, RegistryTest5[i])
         IN  argOptions' = r.argOptions /\ chain' = r.returned
    /\ UNCHANGED <<present, pValue, programName, programArgc, programArgv,
                   argv, index, pc, exc, resolved, before, direct>>

\* <returned parser>.add(o): a later call of the chain, on the temporary
\* the call before it returned
AddOnReturned ==
    /\ pc = "building" /\ chain # <<>> /\ Len(chain) < MaxAdds
    /\ \E i \in 1..Len(RegistryTest5) :
         chain' = add(chain, RegistryTest5[i]).returned
    /\ UNCHANGED <<argOptions, present, pValue, programName, programArgc,
                   programArgv, argv, index, pc, exc, resolved, before, direct>>

\* parser = <chain>, as the tests write it
AssignChain ==
    /\ pc = "building" /\ chain # <<>>
    /\ argOptions' = chain
    /\ pc' = "assigned"
    /\ UNCHANGED <<present, pValue, programName, programArgc, programArgv,
                   argv, index, exc, resolved, before, direct, chain>>

\* parser.parse(2, args) on the parser as built, the descriptors fresh
BeginParse ==
    /\ pc \in {"building", "assigned"} /\ chain # <<>>
    /\ \E t \in Tokens : argv' = <<Argv0, t>>
    /\ present' = [i \in 1..Len(argOptions) |-> FALSE]
    /\ pValue' = [i \in 1..Len(argOptions) |-> argOptions[i].defaultValue]
    /\ before' = [present |-> [i \in 1..Len(argOptions) |-> FALSE],
                  pValue |-> [i \in 1..Len(argOptions) |-> argOptions[i].defaultValue],
                  nresolved |-> 0]
    /\ pc' = "scanning"
    /\ UNCHANGED <<argOptions, programName, programArgc, programArgv, index,
                   exc, resolved, direct, chain>>

InitAdd ==
    /\ pc = "building"
    /\ InitParser(<<>>, <<Argv0>>)

NextAdd ==
    \/ AddOnParser
    \/ AddOnReturned
    \/ AssignChain
    \/ BeginParse
    \/ ProgramNameToken
    \/ TerminatorToken
    \/ LongOptionToken
    \/ ShortOptionToken
    \/ EndOfArguments

SpecAdd == InitAdd /\ [][NextAdd]_vars

\* a descriptor the chain added answers to the key of resolution c
ChainHas(c) ==
    \E d \in 1..Len(chain) :
        IF c.byShort THEN chain[d].shortName = c.key[1] ELSE chain[d].longName = c.key

(* C11: after parser.add(a).add(b)...add(z) the registry of the parser the
   chain started on holds a, b, ..., z in that order, whether or not the
   result of the chain is assigned back, so a parse on it never fails to
   find an option the chain added. *)
C11_ChainRegistersOnParser ==
    chain # <<>>
    => /\ argOptions = chain
       /\ \A i \in 1..Len(resolved) : ChainHas(resolved[i]) => resolved[i].it # End

----------------------------------------------------------------------------
(* Failures of a resolution, as the caller of parse sees them *)

LastResolution == LastResolved[Len(LastResolved)]

\* what the callback of the descriptor resolution c went to throws on the
\* value c carries (NoExc: it is not called, or it accepts the value)
CallbackException(c) ==
    IF c.it # End /\ argOptions[c.it].kind = "IntOpt" /\ c.isValPresent
         /\ stoll(c.value).status = "ok"
    THEN UserHandler(argOptions[c.it].userHandler, stoll(c.value).val)
    ELSE NoExc

(* C12 as claimed: a failure the user callback raises during a parse run
   reaches the caller of parse with exactly the callback's message. *)
C12_CallbackFailureUnchanged ==
    (pc = "thrown" /\ LastResolved # <<>> /\ CallbackException(LastResolution) # NoExc)
    => exc = CallbackException(LastResolution)

(* C12, amended: a ParseException the user callback raises during a parse
   run is caught by parse like any other and thrown again as "Parsing of
   <name> failed: <callback message>": the callback's message is kept
   whole, after the name of the option. *)
C12_CallbackFailureWrapped ==
    (LastIdx >= 1 /\ LastResolved # <<>> /\ CallbackException(LastResolution) # NoExc)
    => /\ pc = "thrown"
       /\ exc = Wrapped(LastResolution.key, CallbackException(LastResolution))

\* --js=2000 against js with the customChecker of testOptParser0
C12_Witness ==
    /\ pc = "thrown" /\ index = 1
    /\ TokenAt(1) = <<"-", "-", "j", "s", "=", "2", "0", "0", "0">>
    /\ argOptions[2].userHandler = "customChecker"
    /\ exc = <<"Parsing of ", "j", "s", " failed: ", "Value is more that 1000">>

\* the messages the coercion of a descriptor of kind k can throw when it is
\* called with or without a value
CoercionMessages(k, isValPresent) ==
    CASE k = "BoolOpt" -> IF isValPresent THEN {<<"Argument does not expect a value">>}
                          ELSE {}
      [] k = "IntOpt"  -> IF isValPresent
                          THEN {<<"Argument expects an integer value">>,
                                <<"Value is not in range of a 64 bit int">>,
                                <<"Value is more that 1000">>}
                          ELSE {<<"Argument expects an integer value">>}
      [] k = "UintOpt" -> IF isValPresent
                          THEN {<<"Argument expects an non negative int value">>,
                                <<"Value is not in range of a 64 bit unsigned integer">>}
                          ELSE {<<"Argument expects an non negative int value">>}
      [] OTHER         -> IF isValPresent THEN {}
                          ELSE {<<"Argument expects a value">>}

(* C13: when parse throws in a resolution whose name is registered, the
   message is "Parsing of <name> failed: <inner>", <name> being the short
   character or long name as written and <inner> the message of the
   coercion (value given or missing against the kind, format, range); when
   the name is not registered the message is "No such option <name>", with
   no such prefix. *)
C13_CoercionFailureIsWrapped ==
    (pc = "thrown" /\ LastResolved # <<>>)
    => LET c == LastResolution
           known == IF c.byShort THEN KnownShort(c.key[1]) ELSE KnownLong(c.key)
       IN  IF known
           THEN \E inner \in CoercionMessages(argOptions[c.it].kind, c.isValPresent) :
                    exc = Wrapped(c.key, inner)
           ELSE exc = <<"No such option ">> \o c.key

\* --js=9223372036854775808: the range error under the name js
C13_Witness ==
    /\ pc = "thrown" /\ index = 1
    /\ TokenAt(1) = <<"-", "-", "j", "s", "=", "9", "2", "2", "3", "3", "7", "2", "0", "3", "6", "8", "5", "4", "7", "7", "5", "8", "0", "8">>
    /\ exc = <<"Parsing of ", "j", "s", " failed: ",
               "Value is not in range of a 64 bit int">>
    /\ present[2] /\ pValue[2] = Int_1100

----------------------------------------------------------------------------
(* Texts that are not decimal integers, and values stored by a failed call *)

\* an optional sign, then digits only
IsSignedDecimalText(t) ==
    /\ t # <<>>
    /\ AllDigits(IF t[1] \in {"-", "+"} THEN Tail(t) ELSE t)

(* C14 as claimed: a signed-integer option given a text that is not an
   optional sign followed only by decimal digits ("abc", "", "12abc")
   throws "Argument expects an integer value" and keeps its stored value. *)
C14_NonNumericTextRefused ==
    (Len(direct) >= 1 /\ argOptions[1].kind = "IntOpt"
       /\ LastCall.isPresent /\ ~IsSignedDecimalText(LastCall.value))
    => /\ exc = <<"Argument expects an integer value">>
       /\ pValue[1] = before.pValue[1]

(* C16 as claimed: when the resolution of an option fails, for any reason,
   the stored value of the descriptor it went to is the one it had before
   the token. *)
C16_FailedResolutionKeepsValue ==
    (pc = "thrown" /\ LastResolved # <<>> /\ LastResolution.it # End)
    => pValue[LastResolution.it] = before.pValue[LastResolution.it]

(* C17 as claimed: a short cluster token, with or without =value, never
   resolves to a descriptor built by a long-name-only constructor, and
   leaves its presence and stored value as they were. *)
C17_NoShortNameNeverInCluster ==
    (LastIdx >= 1 /\ IsShortCluster(LastToken))
    => \A d \in 1..Len(argOptions) :
         argOptions[d].shortName = NoShortName
         => d \notin Targets(LastResolved) /\ Untouched(d)

\* the text of token t after its first "="
ValuePart(t) == SubSeq(t, FirstEq(t) + 1, Len(t))

(* C19 as claimed: a short-option token with "=" (even with no character
   before the "=") either makes parse throw or resolves exactly one option
   with the text after the "=" attached. *)
C19_ShortValueNeverDropped ==
    (LastIdx >= 1 /\ IsShortCluster(LastToken) /\ HasEq(LastToken))
    => \/ pc = "thrown"
       \/ \E i \in 1..Len(LastResolved) :
            /\ LastResolved[i].isValPresent
            /\ LastResolved[i].value = ValuePart(LastToken)
            /\ \A j \in 1..Len(LastResolved) : LastResolved[j].isValPresent => j = i

----------------------------------------------------------------------------
(* A registry whose descriptors share names *)

\* is and js share the short name i; ls and ks share the long name ls
RegistryDup ==
    << Opt("BoolOpt", "i", Str_is, FALSE, "nullptr"),
       Opt("IntOpt", "i", Str_js, Int_1100, "nullptr"),
       Opt("StrOpt", "l", Str_ls, Str_Blah, "nullptr"),
       Opt("UintOpt", "k", Str_ls, Uint_2200, "nullptr") >>

DupTokens ==
    { <<"p", "g">>,
      <<"-", "-">>,
      <<"-", "i">>,
      <<"-", "i", "=", "5">>,
      <<"-", "i", "l">>,
      <<"-", "l", "=", "a">>,
      <<"-", "k", "=", "9">>,
      <<"-", "-", "l", "s">>,
      <<"-", "-", "l", "s", "=", "7">>,
      <<"-", "-", "i", "s">>,
      <<"-", "-", "j", "s", "=", "3">>,
      <<"-", "-", "x", "s">> }

MaxDupArgs == 3

InitDup ==
    /\ pc = "scanning"
    /\ \E n \in 0..MaxDupArgs :
         \E args \in [1..n -> DupTokens] : InitParser(RegistryDup, <<Argv0>> \o args)

SpecDup == InitDup /\ [][Next]_vars

\* the registered descriptors that carry the name the resolution c was given
Named(c) ==
    { d \in 1..Len(argOptions) :
        IF c.byShort THEN argOptions[d].shortName = c.key[1]
        ELSE argOptions[d].longName = c.key }

FirstRegistered(S) == CHOOSE d \in S : \A e \in S : d <= e

\* the descriptors the resolutions of calls go to by first match
FirstMatches(calls) ==
    { FirstRegistered(Named(calls[i])) : i \in { j \in 1..Len(calls) : Named(calls[j]) # {} } }

(* C15: when registered descriptors share a short letter or a long name,
   every resolution by that name goes to the one registered first, which
   becomes present; a descriptor that is not the first registered under any
   name a token uses keeps its presence flag and stored value over that
   token. *)
C15_FirstMatchLookup ==
    /\ \A i \in 1..Len(resolved) :
         Named(resolved[i]) # {}
         => /\ resolved[i].it = FirstRegistered(Named(resolved[i]))
            /\ present[FirstRegistered(Named(resolved[i]))]
    /\ LastIdx >= 1
       => \A d \in 1..Len(argOptions) :
            d \notin FirstMatches(LastResolved) => Untouched(d)

\* -i went to is and not to js, --ls=7 went to the string ls and not to the
\* unsigned ls
C15_Witness ==
    /\ argOptions = RegistryDup
    /\ argv = <<Argv0, <<"-", "i">>, <<"-", "-", "l", "s", "=", "7">>>>
    /\ pc = "returned"
    /\ present = <<TRUE, FALSE, TRUE, FALSE>>
    /\ pValue = <<TRUE, Int_1100, <<"7">>, Uint_2200>>

(* C18: in every state of a parse run a descriptor is present exactly when
   some resolution so far went (by first match) to it, whether its coercion
   succeeded or threw; a descriptor present before a token is present after
   it; a descriptor that is absent holds its default value. *)
C18_PresenceTracksResolution ==
    \A d \in 1..Len(argOptions) :
       /\ present[d] <=> d \in FirstMatches(resolved)
       /\ before.present[d] => present[d]
       /\ ~present[d] => pValue[d] = argOptions[d].defaultValue

\* --is=1 throws in the coercion of is, which is present all the same
C18_Witness ==
    /\ argOptions = RegistryTest5
    /\ argv = <<Argv0, <<"-", "j", "=", "2", "0", "0", "0">>, <<"-", "-", "i", "s", "=", "1">>>>
    /\ pc = "thrown" /\ index = 2
    /\ exc = <<"Parsing of ", "i", "s", " failed: ", "Argument does not expect a value">>
    /\ present = <<TRUE, TRUE, FALSE, FALSE>>
    /\ pValue[1] = FALSE

====
